---- MODULE Spec2Model ----
(***************************************************************************)
(* LiteEth MAC CRC (liteeth/mac/crc.py): the parallel CRC engine, the      *)
(* CRC32 unit, the CRC inserter and the CRC checker, one action per clock  *)
(* cycle of each FSM state.  Bit vectors are tuples of 0/1, bit n of a     *)
(* signal at index n+1, so that 32-bit values keep their width.            *)
(***************************************************************************)
EXTENDS Integers, Sequences, FiniteSets, TLC

\* ------------------------------------------------------------------ bounds
\* longest payload (in stream elements) the upstream driver presents
MaxLen == 2
\* register width and largest data width of the exhaustively checked engines
SmallWidth == 4
SmallData == 3
\* longest message clocked into the stand-alone CRC32 unit
MaxMsg == 3
\* most full words clocked into the wide CRC32 unit before the final word
MaxWords == 1

\* payload byte values the drivers draw from
ByteVals == {1, 2, 255}
\* the concrete scenario of the specification: input bytes 01 02 03 04
Scenario == <<1, 2, 3, 4>>

\* ------------------------------------------------------------- bit vectors
\* the function f over 1..n as an explicit tuple
AsTuple(f) == f \o <<>>

Bit(v, n) == IF n >= 31 THEN 0 ELSE (v \div (2 ^ n)) % 2

\* the low w bits of the non-negative integer v, bit n at index n+1
Bits(v, w) == AsTuple([k \in 1..w |-> Bit(v, k - 1)])

RECURSIVE ToInt(_)
ToInt(b) == IF b = <<>> THEN 0 ELSE b[1] + 2 * ToInt(Tail(b))

Xor(a, b) == (a + b) % 2

\* Signal slice signal[lo:hi]
Slice(signal, lo, hi) == AsTuple([k \in 1..(hi - lo) |-> signal[lo + k]])

\* ---------------------------------------------------------------- engine
Term(t, n) == <<t, n>>

RECURSIVE SortedSeq(_)
SortedSeq(S) ==
    IF S = {} THEN <<>>
    ELSE LET m == CHOOSE x \in S : \A y \in S : x <= y
         IN  <<m>> \o SortedSeq(S \ {m})

Occurrences(l, e) == Cardinality({k \in 1..Len(l) : l[k] = e})

\* a buggy cancellation: every repeated term is kept once, whatever its count
OptimizeEqKeepAll(l) ==
    LET keep == {k \in 1..Len(l) : \A m \in 1..(k - 1) : l[m] # l[k]}
        idx  == SortedSeq(keep)
    IN  AsTuple([k \in 1..Len(idx) |-> l[idx[k]]])

\* _optimize_eq: the terms that occur an odd number of times, each once, in
\* the order of their first occurrence
OptimizeEq(l) ==
    LET keep == {k \in 1..Len(l) :
                    /\ \A m \in 1..(k - 1) : l[m] # l[k]
                    /\ Occurrences(l, l[k]) % 2 # 0}
        idx  == SortedSeq(keep)
    IN  AsTuple([k \in 1..Len(idx) |-> l[idx[k]]])

Taps(N, P) == {x \in 0..(N - 1) : Bit(P, x) = 1}

\* one iteration of the loop over the data bits: slot j of curval is
\* curval[j+1]
EngineShift(curval, i, N, P) ==
    LET feedback == curval[N] \o <<Term("din", i)>>
        upd(j)   == OptimizeEq(IF (j + 1) \in Taps(N, P)
                               THEN curval[j + 1] \o feedback
                               ELSE curval[j + 1])
    IN  <<feedback>> \o AsTuple([j \in 1..(N - 1) |-> upd(j - 1)])

RECURSIVE EngineLoop(_, _, _, _, _)
EngineLoop(curval, i, W, N, P) ==
    IF i >= W THEN curval
    ELSE EngineLoop(EngineShift(curval, i, N, P), i + 1, W, N, P)

\* the equations of LiteEthMACCRCEngine(data_width = W, width = N, polynom = P)
EngineEq(W, N, P) ==
    EngineLoop(AsTuple([i \in 1..N |-> <<Term("state", i - 1)>>]), 0, W, N, P)

TermBit(t, last, data) ==
    IF t[1] = "state" THEN last[t[2] + 1] ELSE data[t[2] + 1]

\* next[i] = reduce(xor, xors)
EngineNext(eq, last, data) ==
    AsTuple([i \in 1..Len(eq) |->
        Cardinality({k \in 1..Len(eq[i]) : TermBit(eq[i][k], last, data) = 1}) % 2])

\* ----------------------------------------------------------------- CRC32
width == 32
polynom == 79764919
init == AsTuple([i \in 1..width |-> 1])
\* 0xC704DD7B
check == Bits(56699, 16) \o Bits(50948, 16)

\* data width of the stream (len(sink.data)) and the number of stream
\* elements the CRC occupies
dw == 8
ratio == width \div dw

\* the widest data bus modelled and its byte lanes (dw = data_width//8 of
\* the CRC32 unit)
data_width == 32
lanes == data_width \div 8

\* engines[e], e = 1 .. data_width/8, of data width 8*e; the unit of the
\* 8-bit stream has the first of them only
engines == AsTuple([e \in 1..lanes |-> EngineEq(8 * e, width, polynom)])

\* a fallback to the lowest byte lane
LastBeLowLane(last_be) ==
    IF \E e \in 1..Len(last_be) : last_be[e] = 1 THEN last_be
    ELSE AsTuple([e \in 1..Len(last_be) |-> IF e = 1 THEN 1 ELSE 0])

\* the internal last_be: the input, or the top byte lane when the input is 0
LastBe(last_be) ==
    IF \E e \in 1..Len(last_be) : last_be[e] = 1 THEN last_be
    ELSE AsTuple([e \in 1..Len(last_be) |-> IF e = Len(last_be) THEN 1 ELSE 0])

\* the lane whose If(last_be[e], ...) assigns last
Lane(last_be) ==
    LET lb == LastBe(last_be)
    IN  CHOOSE e \in 1..Len(lb) : lb[e] = 1 /\ \A f \in (e + 1)..Len(lb) : lb[f] = 0

\* every engine chained from the register of its own lane
CRC32EngineNextOwnLane(regs, data, e) ==
    EngineNext(engines[e], regs[e], Slice(data, 0, 8 * e))

\* engines[e].next with engines[e].data = data[:8e], engines[e].last = regs[-1]
CRC32EngineNext(regs, data, e) ==
    EngineNext(engines[e], regs[Len(regs)], Slice(data, 0, 8 * e))

\* a value that is not complemented
CRC32ValueNoInvert(regs, last_be) ==
    LET r == regs[Lane(last_be)] IN AsTuple([k \in 1..width |-> r[width + 1 - k]])

\* value = ~(regs[e][::-1])
CRC32Value(regs, last_be) ==
    LET r == regs[Lane(last_be)]
    IN  AsTuple([k \in 1..width |-> 1 - r[width + 1 - k]])

\* a comparison of the wrong polarity: error when the residue matches
CRC32ErrorInverted(regs, data, last_be) ==
    CRC32EngineNext(regs, data, Lane(last_be)) = check

\* error = (engines[e].next != check)
CRC32Error(regs, data, last_be) ==
    CRC32EngineNext(regs, data, Lane(last_be)) # check

\* the registers after the clock edge (ResetInserter over CEInserter)
CRC32Sync(regs, data, ce, reset) ==
    IF reset THEN AsTuple([e \in 1..Len(regs) |-> init])
    ELSE IF ce THEN AsTuple([e \in 1..Len(regs) |-> CRC32EngineNext(regs, data, e)])
    ELSE regs

\* registers at reset, and the undriven last_be input of both pipelines
CRC32Reset == AsTuple([e \in 1..(dw \div 8) |-> init])
NoLastBe == AsTuple([e \in 1..(dw \div 8) |-> 0])

\* ------------------------------------------------------------- chooser
RECURSIVE BitsFor(_)
BitsFor(v) == IF v <= 1 THEN 1 ELSE 1 + BitsFor(v \div 2)

\* a chooser without reverse: chunk `shift` of the signal
ChooserForward(signal, shift, w) == Slice(signal, shift * w, (shift + 1) * w)

\* chooser(signal, shift, output, reverse=True) with n = 2**len(shift),
\* shift being cnt = Signal(max=ratio)
Chooser(signal, shift, w) ==
    LET n == 2 ^ BitsFor(ratio - 1)
        s == n - shift - 1
    IN  Slice(signal, s * w, (s + 1) * w)

\* ================================================================ state
VARIABLES
    e_cfg,      \* engine under evaluation: <<data_width, width, polynom>>
    e_last,     \* LiteEthMACCRCEngine.last
    e_data,     \* LiteEthMACCRCEngine.data
    e_next,     \* LiteEthMACCRCEngine.next
    k_regs,     \* stand-alone LiteEthMACCRC32: regs
    k_msg,      \* bytes clocked into it since its reset
    k_trail,    \* trailer bytes still to be clocked in
    k_phase,    \* "data" or "trailer"
    k_error,    \* crc.error as seen with the byte clocked in last
    u_pkt,      \* upstream driver: the elements of the packet it presents
    u_idx,      \* upstream driver: how many of them the sink has accepted
    i_state,    \* Inserter: fsm state
    i_regs,     \* Inserter: crc.regs
    i_cnt,      \* Inserter: cnt
    i_sig,      \* Inserter: the signals of the cycle that just ended
    i_in,       \* Inserter: sink elements accepted since the fsm left IDLE
    i_log,      \* Inserter: source elements transferred since the fsm left IDLE
    c_state,    \* Checker: fsm state
    c_regs,     \* Checker: crc.regs
    c_level,    \* Checker: fifo.level
    c_produce,  \* Checker: fifo produce pointer
    c_consume,  \* Checker: fifo consume pointer
    c_storage,  \* Checker: fifo storage, address a at index a+1
    c_sig,      \* Checker: the signals of the cycle that just ended
    c_in,       \* Checker: sink elements accepted of the current packet
    c_log,      \* Checker: source elements transferred during the current packet
    c_pktno,    \* Checker: 0 before the first accepted element, 1 during the
                \* first packet, 2 from the second packet on
    c_first,    \* Checker: fifo.level in the cycle the first element of the
                \* current packet was accepted
    l_flip,     \* link Inserter -> Checker: <<element, bit>> to flip, <<0, 0>>: none
    l_sent,     \* link: elements transferred over it
    w_regs,     \* LiteEthMACCRC32(32): regs, one per byte lane
    w_msg,      \* bytes of the full words clocked into it since its reset
    w_data,     \* the word on its data input, as four bytes, lane 0 first
    w_lb,       \* its last_be input
    w_phase,    \* "words", or "final" once the final word was clocked in
    x_state,    \* Inserter of the 32-bit stream: fsm state
    x_regs,     \* its crc.regs
    x_pkt,      \* the elements of the packet its upstream presents
    x_idx,      \* how many of them its sink has accepted
    x_in,       \* sink elements accepted since the fsm left IDLE
    x_out       \* source elements transferred since the fsm left IDLE

engVars  == <<e_cfg, e_last, e_data, e_next>>
unitVars == <<k_regs, k_msg, k_trail, k_phase, k_error>>
drvVars  == <<u_pkt, u_idx>>
insVars  == <<i_state, i_regs, i_cnt, i_sig, i_in, i_log>>
chkVars  == <<c_state, c_regs, c_level, c_produce, c_consume, c_storage,
              c_sig, c_in, c_log, c_pktno, c_first>>
linkVars == <<l_flip, l_sent>>
wUnitVars == <<w_regs, w_msg, w_data, w_lb, w_phase>>
wInsVars == <<x_state, x_regs, x_pkt, x_idx, x_in, x_out>>
wideVars == <<wUnitVars, wInsVars>>
vars == <<engVars, unitVars, drvVars, insVars, chkVars, linkVars, wideVars>>

EngInit  == e_cfg = <<0, 0, 0>> /\ e_last = <<>> /\ e_data = <<>> /\ e_next = <<>>
UnitInit ==
    /\ k_regs = CRC32Reset /\ k_msg = <<>> /\ k_trail = <<>>
    /\ k_phase = "data" /\ k_error = FALSE

\* ------------------------------------------------- the engine, evaluated
\* register values the 32-bit engine is evaluated on: every one-bit value,
\* zero, the reset value and the residue
SampleStates ==
    {AsTuple([i \in 1..width |-> IF i = n THEN 1 ELSE 0]) : n \in 0..width}
        \cup {init, check}

\* the inputs the engines are evaluated on: the CRC32 unit's engines on a
\* sampled register and any data byte in every lane, a small engine on every
\* register value, data word and polynomial
EngInputInit ==
    /\ e_next = <<>>
    /\ \/ \E e \in 1..(dw \div 8), s \in SampleStates, d \in 0..255 :
             /\ e_cfg = <<8 * e, width, polynom>>
             /\ e_last = s
             /\ e_data = AsTuple([k \in 1..(8 * e) |-> Bit(d, (k - 1) % 8)])
       \/ \E W \in 1..SmallData, P \in 0..(2 ^ SmallWidth - 1),
             s \in 0..(2 ^ SmallWidth - 1) :
             \E d \in 0..(2 ^ W - 1) :
                 /\ e_cfg = <<W, SmallWidth, P>>
                 /\ e_last = Bits(s, SmallWidth)
                 /\ e_data = Bits(d, W)

\* the combinational next of one of the CRC32 unit's engines
EvalCRC32Engine ==
    /\ e_next = <<>> /\ e_cfg[2] = width
    /\ e_next' = EngineNext(engines[e_cfg[1] \div 8], e_last, e_data)
    /\ UNCHANGED <<e_cfg, e_last, e_data, unitVars, drvVars, insVars, chkVars, linkVars, wideVars>>

\* the combinational next of a small engine
EvalSmallEngine ==
    /\ e_next = <<>> /\ e_cfg[2] = SmallWidth
    /\ e_next' = EngineNext(EngineEq(e_cfg[1], e_cfg[2], e_cfg[3]), e_last, e_data)
    /\ UNCHANGED <<e_cfg, e_last, e_data, unitVars, drvVars, insVars, chkVars, linkVars, wideVars>>

\* ------------------------------------------- the CRC32 unit, stand-alone
\* the trailer the Inserter's CRC state emits for the registers regs: the
\* chunks chooser selects as cnt runs from ratio-1 down to 0
Trailer(regs) ==
    AsTuple([k \in 1..ratio |->
                ToInt(Chooser(CRC32Value(regs, NoLastBe), ratio - k, dw))])

\* crc.reset
UnitReset ==
    /\ k_regs' = CRC32Sync(k_regs, Bits(0, dw), FALSE, TRUE)
    /\ k_msg' = <<>> /\ k_trail' = <<>> /\ k_phase' = "data" /\ k_error' = FALSE
    /\ UNCHANGED <<engVars, drvVars, insVars, chkVars, linkVars, wideVars>>

\* crc.ce with a message byte on crc.data
UnitData ==
    /\ k_phase = "data" /\ Len(k_msg) < MaxMsg
    /\ \E d \in ByteVals :
          /\ k_error' = CRC32Error(k_regs, Bits(d, dw), NoLastBe)
          /\ k_regs' = CRC32Sync(k_regs, Bits(d, dw), TRUE, FALSE)
          /\ k_msg' = Append(k_msg, d)
    /\ UNCHANGED <<k_trail, k_phase, engVars, drvVars, insVars, chkVars, linkVars, wideVars>>

\* the message ends: its trailer is the unit's value, in the Inserter's order
UnitLatch ==
    /\ k_phase = "data" /\ Len(k_msg) >= 1
    /\ k_trail' = Trailer(k_regs)
    /\ k_phase' = "trailer"
    /\ UNCHANGED <<k_regs, k_msg, k_error, engVars, drvVars, insVars, chkVars, linkVars, wideVars>>

\* crc.ce with the next trailer byte on crc.data
UnitTrailer ==
    /\ k_phase = "trailer" /\ k_trail # <<>>
    /\ k_error' = CRC32Error(k_regs, Bits(Head(k_trail), dw), NoLastBe)
    /\ k_regs' = CRC32Sync(k_regs, Bits(Head(k_trail), dw), TRUE, FALSE)
    /\ k_trail' = Tail(k_trail)
    /\ UNCHANGED <<k_msg, k_phase, engVars, drvVars, insVars, chkVars, linkVars, wideVars>>

\* ------------------------------------------------------ upstream driver
\* the sequences over S of length 1 .. n
RECURSIVE SeqsUpTo(_, _)
SeqsUpTo(S, n) ==
    IF n = 0 THEN {}
    ELSE LET shorter == SeqsUpTo(S, n - 1)
         IN  {<<x>> : x \in S} \cup shorter
               \cup {Append(q, x) : q \in {r \in shorter : Len(r) = n - 1}, x \in S}

Payloads == SeqsUpTo(ByteVals, MaxLen) \cup {Scenario}

\* a packet: last on the final element, the upstream error flag on element
\* errAt (0: on none)
Packet(bytes, errAt) ==
    AsTuple([k \in 1..Len(bytes) |->
        [data |-> bytes[k], last |-> (k = Len(bytes)), error |-> (k = errAt)]])

NoElement == [data |-> 0, last |-> FALSE, error |-> FALSE]

\* the sink signals of a cycle in which the driver drives valid = v
DriverSink(v) ==
    LET el == IF u_idx < Len(u_pkt) THEN u_pkt[u_idx + 1] ELSE NoElement
    IN  [valid |-> v, data |-> el.data, last |-> el.last, error |-> el.error]

\* the values valid may take: there is an element to present or there is not
DriverValid == IF u_idx < Len(u_pkt) THEN BOOLEAN ELSE {FALSE}

DrvInit == u_pkt = <<>> /\ u_idx = 0

\* ------------------------------------------------------------ Inserter
NoSig == [state |-> "none", sink_valid |-> FALSE, sink_ready |-> FALSE,
          sink_data |-> 0, sink_last |-> FALSE,
          source_valid |-> FALSE, source_ready |-> FALSE, source_data |-> 0,
          source_last |-> FALSE, source_error |-> FALSE,
          crc_ce |-> FALSE, crc_reset |-> FALSE]

\* an IDLE that leaves sink.ready asserted while it sees the first element
InsIdleKeepsReady(sink, ready) ==
    [sink_ready |-> TRUE,
     source_valid |-> FALSE, source_data |-> 0, source_last |-> FALSE,
     source_error |-> FALSE, crc_ce |-> FALSE, crc_reset |-> TRUE,
     next |-> IF sink.valid THEN "COPY" ELSE "IDLE"]

\* fsm.act("IDLE", ...)
InsIdle(sink, ready) ==
    [sink_ready |-> ~sink.valid,
     source_valid |-> FALSE, source_data |-> 0, source_last |-> FALSE,
     source_error |-> FALSE, crc_ce |-> FALSE, crc_reset |-> TRUE,
     next |-> IF sink.valid THEN "COPY" ELSE "IDLE"]

\* a COPY whose crc.ce does not wait for source.ready
InsCopyCeIgnoresReady(sink, ready) ==
    [sink_ready |-> ready,
     source_valid |-> sink.valid, source_data |-> sink.data, source_last |-> FALSE,
     source_error |-> sink.error, crc_ce |-> sink.valid,
     crc_reset |-> FALSE,
     next |-> IF sink.valid /\ sink.last /\ ready THEN "CRC" ELSE "COPY"]

\* fsm.act("COPY", ...)
InsCopy(sink, ready) ==
    [sink_ready |-> ready,
     source_valid |-> sink.valid, source_data |-> sink.data, source_last |-> FALSE,
     source_error |-> sink.error, crc_ce |-> (sink.valid /\ ready),
     crc_reset |-> FALSE,
     next |-> IF sink.valid /\ sink.last /\ ready THEN "CRC" ELSE "COPY"]

\* a CRC state that never marks its final chunk with last
InsCrcNoLast(regs, cnt, ready) ==
    LET value    == CRC32Value(regs, NoLastBe)
        cnt_done == (cnt = 0)
    IN  [sink_ready |-> FALSE,
         source_valid |-> TRUE, source_data |-> ToInt(Chooser(value, cnt, dw)),
         source_last |-> FALSE, source_error |-> FALSE,
         crc_ce |-> FALSE, crc_reset |-> FALSE,
         next |-> IF cnt_done /\ ready THEN "IDLE" ELSE "CRC"]

\* fsm.act("CRC", ...), in both forms of the ratio
InsCrc(regs, cnt, ready) ==
    LET value    == CRC32Value(regs, NoLastBe)
        cnt_done == (cnt = 0)
    IN  IF ratio > 1
        THEN [sink_ready |-> FALSE,
              source_valid |-> TRUE, source_data |-> ToInt(Chooser(value, cnt, dw)),
              source_last |-> cnt_done, source_error |-> FALSE,
              crc_ce |-> FALSE, crc_reset |-> FALSE,
              next |-> IF cnt_done /\ ready THEN "IDLE" ELSE "CRC"]
        ELSE [sink_ready |-> FALSE,
              source_valid |-> TRUE, source_data |-> ToInt(Slice(value, 0, dw)),
              source_last |-> TRUE, source_error |-> FALSE,
              crc_ce |-> FALSE, crc_reset |-> FALSE,
              next |-> IF ready THEN "IDLE" ELSE "CRC"]

\* the combinational outputs of a cycle
InsComb(state, regs, cnt, sink, ready) ==
    IF state = "IDLE" THEN InsIdle(sink, ready)
    ELSE IF state = "COPY" THEN InsCopy(sink, ready)
    ELSE InsCrc(regs, cnt, ready)

\* cnt after the clock edge
InsCntSync(state, cnt, ready) ==
    IF state = "IDLE" THEN ratio - 1
    ELSE IF state = "CRC" /\ cnt # 0 THEN cnt - (IF ready THEN 1 ELSE 0)
    ELSE cnt

InsInit ==
    /\ i_state = "IDLE" /\ i_regs = CRC32Reset /\ i_cnt = ratio - 1
    /\ i_sig = NoSig /\ i_in = <<>> /\ i_log = <<>>

\* the driver after a cycle in which its element was accepted or not
DriverStep(accepted) ==
    /\ u_idx' = IF accepted THEN u_idx + 1 ELSE u_idx
    /\ u_pkt' = u_pkt

\* the clock edge of the Inserter after a cycle with the signals out
InsUpdate(out, sink, ready) ==
    LET accepted == sink.valid /\ out.sink_ready
        sent     == out.source_valid /\ ready
        in0      == IF i_state = "IDLE" THEN <<>> ELSE i_in
        log0     == IF i_state = "IDLE" THEN <<>> ELSE i_log
    IN  /\ i_state' = out.next
        /\ i_regs'  = CRC32Sync(i_regs, Bits(sink.data, dw), out.crc_ce, out.crc_reset)
        /\ i_cnt'   = InsCntSync(i_state, i_cnt, ready)
        /\ i_sig'   = [state |-> i_state, sink_valid |-> sink.valid,
                       sink_ready |-> out.sink_ready, sink_data |-> sink.data,
                       sink_last |-> sink.last,
                       source_valid |-> out.source_valid, source_ready |-> ready,
                       source_data |-> out.source_data,
                       source_last |-> out.source_last,
                       source_error |-> out.source_error,
                       crc_ce |-> out.crc_ce, crc_reset |-> out.crc_reset]
        /\ i_in'    = IF accepted
                      THEN Append(in0, [data |-> sink.data, last |-> sink.last])
                      ELSE in0
        /\ i_log'   = IF sent
                      THEN Append(log0, [data |-> out.source_data,
                                         last |-> out.source_last])
                      ELSE log0

\* a cycle of the Inserter between the upstream driver and a free source.ready
InsCycle ==
    \E v \in DriverValid, ready \in BOOLEAN :
        \E sink \in {DriverSink(v)} :
            \E out \in {InsComb(i_state, i_regs, i_cnt, sink, ready)} :
                /\ InsUpdate(out, sink, ready)
                /\ DriverStep(sink.valid /\ out.sink_ready)

\* the upstream starts presenting a packet
InsNewPacket ==
    /\ u_idx = Len(u_pkt)
    /\ \E b \in Payloads : u_pkt' = Packet(b, 0)
    /\ u_idx' = 0
    /\ UNCHANGED <<engVars, unitVars, insVars, chkVars, linkVars, wideVars>>

\* a clock cycle in fsm state IDLE
InsIdleCycle ==
    /\ i_state = "IDLE"
    /\ InsCycle
    /\ UNCHANGED <<engVars, unitVars, chkVars, linkVars, wideVars>>

\* a clock cycle in fsm state COPY
InsCopyCycle ==
    /\ i_state = "COPY"
    /\ InsCycle
    /\ UNCHANGED <<engVars, unitVars, chkVars, linkVars, wideVars>>

\* a clock cycle in fsm state CRC
InsCrcCycle ==
    /\ i_state = "CRC"
    /\ InsCycle
    /\ UNCHANGED <<engVars, unitVars, chkVars, linkVars, wideVars>>

\* a truncated packet: the upstream never presents an element with last
Truncated(bytes) ==
    AsTuple([k \in 1..Len(bytes) |->
        [data |-> bytes[k], last |-> FALSE, error |-> FALSE]])

LivePayloads == {SubSeq(Scenario, 1, n) : n \in 1..MaxLen}

LivePackets == UNION {{Packet(b, 0), Truncated(b)} : b \in LivePayloads}

\* the upstream starts presenting a packet; after a truncated packet it
\* presents nothing more
InsLiveNewPacket ==
    /\ u_idx = Len(u_pkt)
    /\ IF u_pkt = <<>> THEN TRUE ELSE u_pkt[Len(u_pkt)].last
    /\ \E p \in LivePackets : u_pkt' = p
    /\ u_idx' = 0
    /\ UNCHANGED <<engVars, unitVars, insVars, chkVars, linkVars, wideVars>>

\* a cycle in which the downstream is ready and the upstream drives valid for
\* the element it has to present
InsLiveCycle ==
    /\ \E sink \in {DriverSink(u_idx < Len(u_pkt))} :
          \E out \in {InsComb(i_state, i_regs, i_cnt, sink, TRUE)} :
              /\ InsUpdate(out, sink, TRUE)
              /\ DriverStep(sink.valid /\ out.sink_ready)
    /\ UNCHANGED <<engVars, unitVars, chkVars, linkVars, wideVars>>

\* ------------------------------------------------------------- Checker
\* stream.SyncFIFO(description, ratio + 1)
depth == ratio + 1

EmptyStorage == AsTuple([a \in 1..depth |-> NoElement])

\* _inc(signal, modulo) of the fifo pointers
Inc(ptr) == IF ptr = depth - 1 THEN 0 ELSE ptr + 1

\* the fifo after the clock edge: the write port stores din at produce, the
\* pointers and the level move, and fifo.reset returns them (not the
\* storage) to 0
FifoSync(level, produce, consume, storage, we, din, re, reset) ==
    LET writable == level # depth
        readable == level # 0
        do_write == we /\ writable
        do_read  == readable /\ re
    IN  [storage |-> IF do_write
                     THEN [storage EXCEPT ![produce + 1] = din]
                     ELSE storage,
         produce |-> IF reset THEN 0
                     ELSE IF do_write THEN Inc(produce) ELSE produce,
         consume |-> IF reset THEN 0
                     ELSE IF do_read THEN Inc(consume) ELSE consume,
         level   |-> IF reset THEN 0
                     ELSE IF do_write /\ ~do_read THEN level + 1
                     ELSE IF do_read /\ ~do_write THEN level - 1
                     ELSE level]

\* a source.error taken from the released element's stored error bit
ChkSourceErrorStored(sink_error, crc_error, stored_error) ==
    stored_error \/ crc_error

\* source.error.eq(sink.error | crc.error), which overrides the error field
\* of source.payload.eq(fifo.source.payload)
ChkSourceError(sink_error, crc_error, stored_error) ==
    sink_error \/ crc_error

\* self.error.eq(source.valid & source.last & crc.error)
ChkErrorPulse(source_valid, source_last, crc_error) ==
    source_valid /\ source_last /\ crc_error

\* fsm.act("RESET" / "IDLE" / "COPY", ...), accepted = sink.valid & sink.ready
ChkFsm(state, accepted, last) ==
    IF state = "RESET"
    THEN [crc_reset |-> TRUE, fifo_reset |-> TRUE, crc_ce |-> FALSE, next |-> "IDLE"]
    ELSE IF state = "IDLE"
    THEN [crc_reset |-> FALSE, fifo_reset |-> FALSE, crc_ce |-> accepted,
          next |-> IF accepted THEN "COPY" ELSE "IDLE"]
    ELSE [crc_reset |-> FALSE, fifo_reset |-> FALSE, crc_ce |-> accepted,
          next |-> IF accepted /\ last THEN "RESET" ELSE "COPY"]

\* a staging condition that releases one element too early
ChkFifoFullEarly(level) == level = ratio - 1

\* a staging condition compared with a level the fifo cannot hold
ChkFifoFullNever(level) == level = depth + 1

\* fifo_full.eq(fifo.level == ratio)
ChkFifoFull(level) == level = ratio

\* the combinational signals of a cycle of the Checker, crc_error being
\* crc.error with crc.data = sink.data
ChkSignals(state, crc_error, level, consume, storage, sink, ready) ==
    LET fifo_full    == ChkFifoFull(level)
        source_valid == sink.valid /\ fifo_full
        fifo_out     == source_valid /\ ready
        fifo_in      == sink.valid /\ (~fifo_full \/ fifo_out)
        stored       == storage[consume + 1]
        fsm          == ChkFsm(state, fifo_in, sink.last)
    IN  [sink_ready   |-> fifo_in,
         fifo_in      |-> fifo_in,
         fifo_out     |-> fifo_out,
         source_valid |-> source_valid,
         source_last  |-> sink.last,
         source_data  |-> stored.data,
         source_error |-> ChkSourceError(sink.error, crc_error, stored.error),
         error        |-> ChkErrorPulse(source_valid, sink.last, crc_error),
         crc_error    |-> crc_error,
         crc_ce       |-> fsm.crc_ce,
         crc_reset    |-> fsm.crc_reset,
         fifo_reset   |-> fsm.fifo_reset,
         next         |-> fsm.next]

ChkComb(state, regs, level, consume, storage, sink, ready) ==
    ChkSignals(state, CRC32Error(regs, Bits(sink.data, dw), NoLastBe),
               level, consume, storage, sink, ready)

NoChkSig == [state |-> "none", sink_valid |-> FALSE, sink_ready |-> FALSE,
             sink_data |-> 0, sink_last |-> FALSE, sink_error |-> FALSE,
             source_valid |-> FALSE, source_ready |-> FALSE, source_data |-> 0,
             source_last |-> FALSE, source_error |-> FALSE, error |-> FALSE,
             crc_error |-> FALSE, crc_ce |-> FALSE,
             crc_reset |-> FALSE, fifo_reset |-> FALSE,
             level |-> 0, regs |-> CRC32Reset]

ChkInit ==
    /\ c_state = "RESET" /\ c_regs = CRC32Reset
    /\ c_level = 0 /\ c_produce = 0 /\ c_consume = 0 /\ c_storage = EmptyStorage
    /\ c_sig = NoChkSig /\ c_in = <<>> /\ c_log = <<>> /\ c_pktno = 0
    /\ c_first = 0

\* the clock edge of the Checker after a cycle with the signals out
ChkUpdate(out, sink, ready) ==
    LET el       == [data |-> sink.data, last |-> sink.last, error |-> sink.error]
        fifo     == FifoSync(c_level, c_produce, c_consume, c_storage,
                             out.fifo_in, el, out.fifo_out, out.fifo_reset)
        accepted == sink.valid /\ out.sink_ready
        sent     == out.source_valid /\ ready
        first    == c_in = <<>> \/ c_in[Len(c_in)].last
        in0      == IF accepted /\ first THEN <<>> ELSE c_in
        log0     == IF accepted /\ first THEN <<>> ELSE c_log
    IN  /\ c_state'   = out.next
        /\ c_regs'    = CRC32Sync(c_regs, Bits(sink.data, dw), out.crc_ce,
                                  out.crc_reset)
        /\ c_level'   = fifo.level
        /\ c_produce' = fifo.produce
        /\ c_consume' = fifo.consume
        /\ c_storage' = fifo.storage
        /\ c_sig'     = [state |-> c_state, sink_valid |-> sink.valid,
                         sink_ready |-> out.sink_ready, sink_data |-> sink.data,
                         sink_last |-> sink.last, sink_error |-> sink.error,
                         source_valid |-> out.source_valid, source_ready |-> ready,
                         source_data |-> out.source_data,
                         source_last |-> out.source_last,
                         source_error |-> out.source_error, error |-> out.error,
                         crc_error |-> out.crc_error,
                         crc_ce |-> out.crc_ce, crc_reset |-> out.crc_reset,
                         fifo_reset |-> out.fifo_reset,
                         level |-> c_level, regs |-> c_regs]
        /\ c_in'      = IF accepted THEN Append(in0, el) ELSE in0
        /\ c_log'     = IF sent
                        THEN Append(log0, [data |-> out.source_data,
                                           last |-> out.source_last,
                                           error |-> out.source_error])
                        ELSE log0
        /\ c_pktno'   = IF accepted /\ first /\ c_pktno < 2
                        THEN c_pktno + 1 ELSE c_pktno
        /\ c_first'   = IF accepted /\ first THEN c_level ELSE c_first

\* the registers after the bytes of a message were clocked in from reset
RECURSIVE CrcRegs(_)
CrcRegs(bytes) ==
    IF bytes = <<>> THEN CRC32Reset
    ELSE CRC32Sync(CrcRegs(SubSeq(bytes, 1, Len(bytes) - 1)),
                   Bits(bytes[Len(bytes)], dw), TRUE, FALSE)

\* the stream the Inserter makes of a payload
FrameOf(bytes) == bytes \o Trailer(CrcRegs(bytes))

\* byte d with bit n flipped
FlipBit(d, n) == IF Bit(d, n) = 1 THEN d - 2 ^ n ELSE d + 2 ^ n

\* the payloads behind the frames the Checker is driven with
ChkPayloads == {SubSeq(Scenario, 1, n) : n \in 1..MaxLen}

\* the element the upstream marks with its error flag: none, the first one,
\* the first one past the staging delay, or the last
ErrPositions(n) == {0} \cup ({1, ratio + 1, n} \cap 1..n)

ChkPackets ==
    UNION {{Packet(FrameOf(b), e) : e \in ErrPositions(Len(b) + ratio)}
              : b \in ChkPayloads}
    \cup
    UNION {{Packet([FrameOf(b) EXCEPT ![Len(b) + ratio] = FlipBit(@, 0)], e)
              : e \in ErrPositions(Len(b) + ratio)} : b \in ChkPayloads}


\* the upstream starts presenting a packet to the Checker: the frame of a
\* payload, or that frame with the lowest bit of its last element flipped
ChkNewPacket ==
    /\ u_idx = Len(u_pkt)
    /\ \E p \in ChkPackets : u_pkt' = p
    /\ u_idx' = 0
    /\ UNCHANGED <<engVars, unitVars, insVars, chkVars, linkVars, wideVars>>

\* packets no longer than the CRC itself: the first elements of the
\* scenario, clean or with the upstream error flag on the last element
ShortPackets ==
    UNION {{Packet(SubSeq(Scenario, 1, n), e) : e \in {0, n}} : n \in 1..ratio}

\* the upstream starts presenting a short packet, the first or the second
\* one since reset
ShortNewPacket ==
    /\ u_idx = Len(u_pkt) /\ c_pktno < 2
    /\ \E p \in ShortPackets : u_pkt' = p
    /\ u_idx' = 0
    /\ UNCHANGED <<engVars, unitVars, insVars, chkVars, linkVars, wideVars>>

\* a cycle of the Checker between the upstream driver and a free source.ready
ChkCycle ==
    \E v \in DriverValid, ready \in BOOLEAN :
        \E sink \in {DriverSink(v)} :
            \E out \in {ChkComb(c_state, c_regs, c_level, c_consume, c_storage,
                                 sink, ready)} :
                /\ ChkUpdate(out, sink, ready)
                /\ DriverStep(sink.valid /\ out.sink_ready)

\* a clock cycle in fsm state RESET
ChkResetCycle ==
    /\ c_state = "RESET"
    /\ ChkCycle
    /\ UNCHANGED <<engVars, unitVars, insVars, linkVars, wideVars>>

\* a clock cycle in fsm state IDLE
ChkIdleCycle ==
    /\ c_state = "IDLE"
    /\ ChkCycle
    /\ UNCHANGED <<engVars, unitVars, insVars, linkVars, wideVars>>

\* a clock cycle in fsm state COPY
ChkCopyCycle ==
    /\ c_state = "COPY"
    /\ ChkCycle
    /\ UNCHANGED <<engVars, unitVars, insVars, linkVars, wideVars>>

\* ------------------------------------------- Inserter feeding the Checker
\* the bits of the Inserter's output stream for a payload: none, or one
Flips(bytes) ==
    {<<0, 0>>} \cup {<<j, n>> : j \in 1..(Len(bytes) + ratio), n \in 0..(dw - 1)}

LinkInit == l_flip = <<0, 0>> /\ l_sent = 0

\* a payload for the Inserter and the bit of its output stream that the link
\* flips, both fixed before the first cycle
LoopBytes == {1, 255}
LoopPayloads == SeqsUpTo(LoopBytes, MaxLen) \cup {Scenario}

LoopInit ==
    \E b \in LoopPayloads :
        /\ u_pkt = Packet(b, 0) /\ u_idx = 0
        /\ l_flip \in Flips(b) /\ l_sent = 0

\* one clock cycle of the Inserter's source wired to the Checker's sink,
\* source.ready of the Inserter being sink.ready of the Checker
LoopCycle ==
    /\ \E v \in DriverValid, ready \in BOOLEAN :
        \E sinkI \in {DriverSink(v)} :
        \E src \in {InsComb(i_state, i_regs, i_cnt, sinkI, FALSE)} :
        \E sinkC \in {[valid |-> src.source_valid,
                        data  |-> IF l_flip[1] = l_sent + 1
                                  THEN FlipBit(src.source_data, l_flip[2])
                                  ELSE src.source_data,
                        last  |-> src.source_last,
                        error |-> src.source_error]} :
        \E outC \in {ChkComb(c_state, c_regs, c_level, c_consume, c_storage,
                              sinkC, ready)} :
        \E outI \in {InsComb(i_state, i_regs, i_cnt, sinkI, outC.sink_ready)} :
            /\ InsUpdate(outI, sinkI, outC.sink_ready)
            /\ DriverStep(sinkI.valid /\ outI.sink_ready)
            /\ ChkUpdate(outC, sinkC, ready)
            /\ l_sent' = IF sinkC.valid /\ outC.sink_ready
                         THEN l_sent + 1 ELSE l_sent
            /\ l_flip' = l_flip
    /\ UNCHANGED <<engVars, unitVars, wideVars>>

\* ------------------------------- the CRC32 unit of the 32-bit data bus
\* the words clocked into the unit, four bytes each, lane 0 first
WideWords == {<<1, 2, 3, 4>>, <<255, 0, 128, 1>>, <<0, 0, 0, 0>>, <<5, 255, 255, 255>>}

\* the values of the last_be input: every pattern of the four lanes
LastBeVals == {Bits(v, lanes) : v \in 0..(2 ^ lanes - 1)}

\* self.data for a word: byte e in data[8e : 8(e+1)]
WordBits(word) ==
    AsTuple([k \in 1..(8 * Len(word)) |-> Bit(word[((k - 1) \div 8) + 1], (k - 1) % 8)])

WideInit ==
    /\ w_regs = AsTuple([e \in 1..lanes |-> init]) /\ w_msg = <<>>
    /\ w_data = <<0, 0, 0, 0>> /\ w_lb = Bits(0, lanes) /\ w_phase = "words"

\* crc.reset
WideReset ==
    /\ w_regs' = CRC32Sync(w_regs, WordBits(w_data), FALSE, TRUE)
    /\ w_msg' = <<>> /\ w_phase' = "words"
    /\ UNCHANGED <<w_data, w_lb, wInsVars, engVars, unitVars, drvVars, insVars, chkVars, linkVars>>

\* crc.ce with a full word on crc.data
WideWord ==
    /\ w_phase = "words" /\ Len(w_msg) < lanes * MaxWords
    /\ \E word \in WideWords :
          /\ w_regs' = CRC32Sync(w_regs, WordBits(word), TRUE, FALSE)
          /\ w_msg' = w_msg \o word
          /\ w_data' = word
    /\ UNCHANGED <<w_lb, w_phase, wInsVars, engVars, unitVars, drvVars, insVars, chkVars, linkVars>>

\* crc.ce with the final word on crc.data
WideFinal ==
    /\ w_phase = "words"
    /\ \E word \in WideWords :
          /\ w_regs' = CRC32Sync(w_regs, WordBits(word), TRUE, FALSE)
          /\ w_data' = word
    /\ w_phase' = "final"
    /\ UNCHANGED <<w_msg, w_lb, wInsVars, engVars, unitVars, drvVars, insVars, chkVars, linkVars>>

\* the last_be input takes another value
WideLastBe ==
    /\ \E lb \in LastBeVals : lb # w_lb /\ w_lb' = lb
    /\ UNCHANGED <<w_regs, w_msg, w_data, w_phase, wInsVars,
                   engVars, unitVars, drvVars, insVars, chkVars, linkVars>>

\* ----------------------------------------- Inserter of the 32-bit stream
\* crc.last_be in the Inserter: the fsm assigns crc.ce and crc.data only, so
\* the input keeps its reset value
InsCrcLastBe(sink) == Bits(0, lanes)

\* fsm.act("CRC", ...) when ratio = 1: the whole value in one element
InsCrcWord(regs, sink, ready) ==
    [sink_ready |-> FALSE,
     source_valid |-> TRUE, source_data |-> CRC32Value(regs, InsCrcLastBe(sink)),
     source_last |-> TRUE, source_error |-> FALSE,
     crc_ce |-> FALSE, crc_reset |-> FALSE,
     next |-> IF ready THEN "IDLE" ELSE "CRC"]

WInsComb(state, regs, sink, ready) ==
    IF state = "IDLE" THEN InsIdle(sink, ready)
    ELSE IF state = "COPY" THEN InsCopy(sink, ready)
    ELSE InsCrcWord(regs, sink, ready)

\* a packet of words: last and the one-hot last_be of lane k on the final one
WidePacket(words, k) ==
    AsTuple([j \in 1..Len(words) |->
        [data |-> WordBits(words[j]), last |-> (j = Len(words)), error |-> FALSE,
         last_be |-> IF j = Len(words)
                     THEN AsTuple([e \in 1..lanes |-> IF e = k + 1 THEN 1 ELSE 0])
                     ELSE Bits(0, lanes)]])

\* up to MaxWords full words and a final word, with any lane as the last one
WidePackets ==
    {WidePacket(ws, k) : ws \in SeqsUpTo(WideWords, MaxWords + 1), k \in 0..(lanes - 1)}

WNoElement == [data |-> Bits(0, data_width), last |-> FALSE, error |-> FALSE,
               last_be |-> Bits(0, lanes)]

\* the sink signals of a cycle in which the upstream drives valid = v
WDriverSink(v) ==
    LET el == IF x_idx < Len(x_pkt) THEN x_pkt[x_idx + 1] ELSE WNoElement
    IN  [valid |-> v, data |-> el.data, last |-> el.last, error |-> el.error,
         last_be |-> el.last_be]

WInsInit ==
    /\ x_state = "IDLE" /\ x_regs = AsTuple([e \in 1..lanes |-> init])
    /\ x_pkt = <<>> /\ x_idx = 0 /\ x_in = <<>> /\ x_out = <<>>

\* the clock edge after a cycle with the signals out
WInsUpdate(out, sink, ready) ==
    LET accepted == sink.valid /\ out.sink_ready
        sent     == out.source_valid /\ ready
        in0      == IF x_state = "IDLE" THEN <<>> ELSE x_in
        out0     == IF x_state = "IDLE" THEN <<>> ELSE x_out
    IN  /\ x_state' = out.next
        /\ x_regs'  = CRC32Sync(x_regs, sink.data, out.crc_ce, out.crc_reset)
        /\ x_in'    = IF accepted
                      THEN Append(in0, [data |-> sink.data, last |-> sink.last,
                                        last_be |-> sink.last_be])
                      ELSE in0
        /\ x_out'   = IF sent
                      THEN Append(out0, [data |-> out.source_data,
                                         last |-> out.source_last])
                      ELSE out0
        /\ x_idx'   = IF accepted THEN x_idx + 1 ELSE x_idx
        /\ x_pkt'   = x_pkt

\* a clock cycle of the Inserter with a free sink.valid and source.ready
WInsCycle ==
    /\ \E v \in (IF x_idx < Len(x_pkt) THEN BOOLEAN ELSE {FALSE}), ready \in BOOLEAN :
        \E sink \in {WDriverSink(v)} :
            \E out \in {WInsComb(x_state, x_regs, sink, ready)} :
                WInsUpdate(out, sink, ready)
    /\ UNCHANGED <<wUnitVars, engVars, unitVars, drvVars, insVars, chkVars, linkVars>>

\* the upstream starts presenting a packet
WInsNewPacket ==
    /\ x_idx = Len(x_pkt) /\ x_state = "IDLE"
    /\ \E p \in WidePackets : x_pkt' = p
    /\ x_idx' = 0
    /\ UNCHANGED <<x_state, x_regs, x_in, x_out, wUnitVars,
                   engVars, unitVars, drvVars, insVars, chkVars, linkVars>>

\* ================================================================ specs
Init == EngInit /\ UnitInit /\ DrvInit /\ InsInit /\ ChkInit /\ LinkInit /\ WideInit /\ WInsInit

EngineStep == EvalCRC32Engine \/ EvalSmallEngine
EngineInit ==
    EngInputInit /\ UnitInit /\ DrvInit /\ InsInit /\ ChkInit /\ LinkInit /\ WideInit /\ WInsInit
SpecEngine == EngineInit /\ [][EngineStep]_vars

UnitNext == UnitReset \/ UnitData \/ UnitLatch \/ UnitTrailer
SpecCRC32 == Init /\ [][UnitNext]_vars

InsNext == InsNewPacket \/ InsIdleCycle \/ InsCopyCycle \/ InsCrcCycle
SpecInserter == Init /\ [][InsNext]_vars

\* the Inserter with a downstream that is ready again and again and an
\* upstream that presents its element again and again
InsLiveNext == InsLiveNewPacket \/ InsIdleCycle \/ InsCopyCycle \/ InsCrcCycle
SpecInserterLive == Init /\ [][InsLiveNext]_vars /\ WF_vars(InsLiveCycle)

ChkNext == ChkNewPacket \/ ChkResetCycle \/ ChkIdleCycle \/ ChkCopyCycle
SpecChecker == Init /\ [][ChkNext]_vars

ShortNext == ShortNewPacket \/ ChkResetCycle \/ ChkIdleCycle \/ ChkCopyCycle
SpecShort == Init /\ [][ShortNext]_vars

WideNext == WideReset \/ WideWord \/ WideFinal \/ WideLastBe
SpecWide == Init /\ [][WideNext]_vars

WInsNext == WInsNewPacket \/ WInsCycle
SpecWideInserter == Init /\ [][WInsNext]_vars

Next == LoopCycle
PipeInit == EngInit /\ UnitInit /\ InsInit /\ ChkInit /\ LoopInit /\ WideInit /\ WInsInit
Spec == PipeInit /\ [][Next]_vars

\* ================================================================ claims

\* the bit-serial LFSR: fb = s[N-1] xor din, new s[0] = fb,
\* new s[j+1] = s[j] xor (fb if bit j+1 of the polynomial is set)
SerialStep(s, din, N, P) ==
    LET fb == Xor(s[N], din)
    IN  AsTuple([k \in 1..N |->
            IF k = 1 THEN fb
            ELSE IF Bit(P, k - 1) = 1 THEN Xor(s[k - 1], fb) ELSE s[k - 1]])

RECURSIVE SerialNext(_, _, _, _, _)
SerialNext(s, d, i, N, P) ==
    IF i > Len(d) THEN s ELSE SerialNext(SerialStep(s, d[i], N, P), d, i + 1, N, P)

\* C10: the next output of every evaluated engine (the CRC32 unit's on the
\* sampled registers, the small ones on all inputs) equals W bit-serial LFSR
\* steps on its last input taking the data bits d[0], d[1], ... in that order.
C10_EngineEqualsSerial ==
    e_next # <<>> => e_next = SerialNext(e_last, e_data, 1, e_cfg[2], e_cfg[3])

\* an engine of the CRC32 unit has been evaluated on the reset value and a
\* small engine on a polynomial with several taps
C10_Witness ==
    /\ e_next # <<>>
    /\ \/ e_cfg = <<8, width, polynom>> /\ e_last = init /\ e_data = Bits(1, 8)
       \/ e_cfg = <<SmallData, SmallWidth, 3>> /\ e_last = Bits(5, SmallWidth)

\* C9: once the message and then the four bytes of value(), in the order the
\* Inserter emits them, have been clocked into a unit that started from reset,
\* crc.error was false with the fourth trailer byte on crc.data (the raw next
\* of the lane was 0xC704DD7B).
C9_ResidueIdentity ==
    (k_phase = "trailer" /\ k_trail = <<>>) => ~k_error

\* a message of the longest length has been followed by its whole trailer
C9_Witness ==
    k_phase = "trailer" /\ k_trail = <<>> /\ Len(k_msg) = MaxMsg

\* the CRC elements of the Inserter's log: what follows the copied elements
CrcPart == SubSeq(i_log, Len(i_in) + 1, Len(i_log))

\* the Inserter's packet is complete: the fsm is back in IDLE with its logs
InsPacketDone == i_state = "IDLE" /\ i_in # <<>>

\* chunk k (from 0, least significant first) of a 32-bit value
ChunkOf(value, k) == ToInt(Slice(value, k * dw, (k + 1) * dw))

\* 0xB63CFBCD
ScenarioCrc == Bits(64461, 16) \o Bits(46652, 16)

\* C2, as amended: crc.value is emitted as 32/dw source elements of dw bits,
\* least-significant chunk first, last only on the final chunk; for the input
\* 01 02 03 04 crc.value is 0xB63CFBCD and the appended elements are
\* CD FB 3C B6 in that order.
C2_TrailerLeastSignificantFirst ==
    /\ \A k \in 1..Len(CrcPart) :
          /\ i_state # "IDLE" \/ InsPacketDone
          /\ CrcPart[k].data = ChunkOf(CRC32Value(i_regs, NoLastBe), k - 1)
          /\ CrcPart[k].last = (k = ratio)
    /\ InsPacketDone => Len(CrcPart) = ratio
    /\ (InsPacketDone /\ [k \in 1..Len(i_in) |-> i_in[k].data] = Scenario) =>
          /\ CRC32Value(i_regs, NoLastBe) = ScenarioCrc
          /\ [k \in 1..ratio |-> CrcPart[k].data] = <<205, 251, 60, 182>>

\* the whole trailer of the scenario packet has been emitted
C2_Witness ==
    /\ InsPacketDone
    /\ [k \in 1..Len(i_in) |-> i_in[k].data] = Scenario
    /\ Len(CrcPart) = ratio

\* C2, as stated: most-significant chunk first, B6 3C FB CD for the scenario
C2_TrailerMostSignificantFirst ==
    /\ \A k \in 1..Len(CrcPart) :
          /\ CrcPart[k].data = ChunkOf(CRC32Value(i_regs, NoLastBe), ratio - k)
          /\ CrcPart[k].last = (k = ratio)
    /\ (InsPacketDone /\ [k \in 1..Len(i_in) |-> i_in[k].data] = Scenario) =>
          /\ CRC32Value(i_regs, NoLastBe) = ScenarioCrc
          /\ [k \in 1..ratio |-> CrcPart[k].data] = <<182, 60, 251, 205>>

\* C3: whatever source.ready and the packets, the source transfers of a packet
\* are its accepted sink elements in order, data unchanged and last = 0,
\* followed (once its last element was accepted) by CRC elements, 32/dw of
\* them when the fsm is back in IDLE, only the final one with last = 1; and a
\* sink element is accepted only in COPY, in the cycle it is transferred.
C3_InserterBackpressureSafe ==
    /\ Len(i_log) >= Len(i_in)
    /\ \A k \in 1..Len(i_in) :
          i_log[k] = [data |-> i_in[k].data, last |-> FALSE]
    /\ \A k \in 1..Len(i_in) : i_in[k].last = (k = Len(i_in) /\ i_state # "COPY")
    /\ Len(CrcPart) <= ratio
    /\ Len(CrcPart) > 0 => i_in[Len(i_in)].last
    /\ \A k \in 1..Len(CrcPart) : CrcPart[k].last = (k = ratio)
    /\ InsPacketDone => Len(CrcPart) = ratio
    /\ i_state = "CRC" => Len(CrcPart) = ratio - 1 - i_cnt
    /\ (i_sig.sink_valid /\ i_sig.sink_ready) =>
          /\ i_sig.state = "COPY"
          /\ i_sig.source_valid /\ i_sig.source_ready
          /\ i_sig.source_data = i_sig.sink_data
    /\ i_state = "COPY" =>
          i_in = [k \in 1..u_idx |-> [data |-> u_pkt[k].data, last |-> u_pkt[k].last]]

\* a packet has been copied and trailed after stalls of the source
C3_Witness ==
    /\ InsPacketDone /\ Len(i_in) = MaxLen /\ Len(i_log) = MaxLen + ratio
    /\ ~i_sig.sink_valid /\ u_idx = Len(u_pkt)

\* the link has carried the whole stream of the packet
LinkDone == l_sent = Len(u_pkt) + ratio

\* C1, as amended: with no bit flipped on the link, the Checker's source
\* transfers exactly the bytes of b, in order, last only on the final one,
\* with error = 0 on that final element, and the error pulse is never asserted
\* (on the earlier elements error is the running mismatch flag of the CRC
\* unit and may be 1).
C1_RoundTrip ==
    l_flip = <<0, 0>> =>
        /\ Len(c_log) <= Len(u_pkt)
        /\ \A k \in 1..Len(c_log) :
              /\ c_log[k].data = u_pkt[k].data
              /\ c_log[k].last = (k = Len(u_pkt))
              /\ c_log[k].last => ~c_log[k].error
        /\ LinkDone => Len(c_log) = Len(u_pkt)
        /\ ~c_sig.error

\* a payload of the longest length went through unflipped
C1_Witness ==
    /\ l_flip = <<0, 0>> /\ LinkDone
    /\ Len(u_pkt) = MaxLen /\ Len(c_log) = MaxLen

\* C1, as stated: error = 0 on every transferred element
C1_RoundTripNoErrorAnywhere ==
    l_flip = <<0, 0>> =>
        /\ Len(c_log) <= Len(u_pkt)
        /\ \A k \in 1..Len(c_log) :
              /\ c_log[k].data = u_pkt[k].data
              /\ ~c_log[k].error
        /\ ~c_sig.error

\* the Checker's source transferred an element in the cycle that just ended
ChkSent == c_sig.source_valid /\ c_sig.source_ready

\* C8: with one bit of the Inserter's output stream flipped on the link, the
\* error pulse is asserted in the cycle the packet's last source element is
\* transferred and that element carries error = 1; it is the final byte of b.
C8_SingleBitDetected ==
    l_flip # <<0, 0>> =>
        /\ (ChkSent /\ c_sig.source_last) =>
              /\ c_sig.error /\ c_sig.source_error
              /\ LinkDone
        /\ LinkDone =>
              /\ Len(c_log) = Len(u_pkt)
              /\ c_log[Len(c_log)].last /\ c_log[Len(c_log)].error

\* a stream with its top payload bit flipped, and one with the lowest bit of
\* its trailer flipped, went through
C8_Witness ==
    /\ LinkDone /\ c_sig.error
    /\ l_flip = <<1, dw - 1>> \/ l_flip = <<Len(u_pkt) + ratio, 0>>

\* the current packet of the Checker is complete
ChkPacketDone == c_in # <<>> /\ c_in[Len(c_in)].last

\* C4: of the first packet fed to the Checker after reset, the source
\* transfers exactly the first n - ratio accepted elements, in order, each
\* once, last on exactly the final one; the trailer is never transferred.
C4_StripsTrailerFifo ==
    c_pktno = 1 =>
        /\ Len(c_log) = (IF Len(c_in) > ratio THEN Len(c_in) - ratio ELSE 0)
        /\ \A k \in 1..Len(c_log) :
              /\ c_log[k].data = c_in[k].data
              /\ c_log[k].last = (k = Len(c_log) /\ ChkPacketDone)

\* C5: sink.ready is asserted only in a cycle where the accepted element is
\* fed to the CRC unit and is in the staging buffer after the clock edge, and
\* every element transferred on source is a non-trailer element of the packet
\* being received.
C5_NoLossNoInvention ==
    /\ (c_sig.sink_valid /\ c_sig.sink_ready) =>
          /\ c_sig.crc_ce
          /\ c_level > 0
          /\ c_storage[((c_produce + depth - 1) % depth) + 1].data = c_sig.sink_data
    /\ \A k \in 1..Len(c_log) :
          k + ratio <= Len(c_in) /\ c_log[k].data = c_in[k].data

\* C6: the error output is asserted only in the cycle in which the packet's
\* final output element is transferred (source.valid & source.ready &
\* source.last), so once per packet, and only when the residue check fails.
C6_ErrorPulseOneShot ==
    c_sig.error =>
        /\ c_sig.source_valid /\ c_sig.source_ready /\ c_sig.source_last
        /\ c_sig.crc_error

\* C7: the source element transferred with last = 1 has error = 0 exactly
\* when the register of the CRC unit with the sink's last element folded in
\* by the serial LFSR is the residue 0xC704DD7B and the sink's error flag is 0.
C7_ErrorOnFinalElement ==
    (ChkSent /\ c_sig.source_last) =>
        /\ ~c_sig.source_error <=>
              /\ SerialNext(c_sig.regs[Lane(NoLastBe)], Bits(c_sig.sink_data, dw),
                            1, width, polynom) = check
              /\ ~c_sig.sink_error
        /\ c_log[Len(c_log)].last
        /\ c_log[Len(c_log)].error = c_sig.source_error

\* a final element went out clean, the residue matching and no upstream error
C7_Witness ==
    /\ ChkSent /\ c_sig.source_last /\ ~c_sig.source_error
    /\ Len(c_in) > ratio

\* the reference CRC32 (IEEE 802.3), byte-serial and reflected: the register
\* starts at 0xFFFFFFFF, each byte is xored into its low bits and shifted out
\* to the right over the polynomial 0xEDB88320, the result is complemented
RefPoly == Bits(33568, 16) \o Bits(60856, 16)

RefShift(c) ==
    LET shifted == AsTuple([k \in 1..width |-> IF k = width THEN 0 ELSE c[k + 1]])
    IN  IF c[1] = 1
        THEN AsTuple([k \in 1..width |-> Xor(shifted[k], RefPoly[k])])
        ELSE shifted

RECURSIVE RefShifts(_, _)
RefShifts(c, n) ==
    IF n = 0 THEN c
    ELSE CHOOSE r \in {RefShifts(x, n - 1) : x \in {RefShift(c)}} : TRUE

RefByte(c, b) ==
    RefShifts(AsTuple([k \in 1..width |-> IF k <= 8 THEN Xor(c[k], Bit(b, k - 1))
                                          ELSE c[k]]), 8)

RECURSIVE RefFold(_, _)
RefFold(c, bytes) ==
    IF bytes = <<>> THEN c
    ELSE CHOOSE r \in {RefFold(x, Tail(bytes)) : x \in {RefByte(c, Head(bytes))}} : TRUE

RefCrc(bytes) ==
    LET c == RefFold(AsTuple([k \in 1..width |-> 1]), bytes)
    IN  AsTuple([k \in 1..width |-> 1 - c[k]])

\* last_be with bit k alone
OneHot(k) == AsTuple([e \in 1..lanes |-> IF e = k + 1 THEN 1 ELSE 0])

\* C12: whenever the last_be input of the unit is all-zero, value and error
\* are those of last_be = 2^(B-1): value is the complemented bit reversal of
\* the top lane's register and error compares the top lane's engine output
\* with the residue 0xC704DD7B.
C12_LastBeZeroFallback ==
    w_lb = Bits(0, lanes) =>
        /\ CRC32Value(w_regs, w_lb) = CRC32Value(w_regs, OneHot(lanes - 1))
        /\ CRC32Value(w_regs, w_lb) =
              AsTuple([k \in 1..width |-> 1 - w_regs[lanes][width + 1 - k]])
        /\ CRC32Error(w_regs, WordBits(w_data), w_lb) =
              CRC32Error(w_regs, WordBits(w_data), OneHot(lanes - 1))
        /\ CRC32Error(w_regs, WordBits(w_data), w_lb) =
              (EngineNext(engines[lanes], w_regs[lanes], WordBits(w_data)) # check)

\* the lanes hold different registers after a final word and last_be is zero
C12_Witness ==
    /\ w_phase = "final" /\ w_lb = Bits(0, lanes)
    /\ w_regs[1] # w_regs[lanes] /\ w_msg # <<>>

\* C13: from reset, after full words and a final word were clocked in, value
\* with the one-hot last_be bit k is the reference CRC32 over the bytes of the
\* full words followed by the k+1 lowest bytes of the final word.
C13_LaneSelection ==
    w_phase = "final" =>
        \A k \in 0..(lanes - 1) :
            w_lb = OneHot(k) =>
                CRC32Value(w_regs, w_lb) = RefCrc(w_msg \o SubSeq(w_data, 1, k + 1))

\* a full word and then a final word were clocked in and a lane below the top
\* one is selected
C13_Witness ==
    /\ w_phase = "final" /\ Len(w_msg) = lanes * MaxWords
    /\ w_lb = OneHot(1)

\* the valid bytes of accepted elements: every byte of the words before the
\* final one, the bytes up to the last_be lane of the final one
ValidBytes(els) ==
    LET n  == Len(els)
        k  == CHOOSE e \in 1..lanes : els[n].last_be[e] = 1
        by(j, e) == ToInt(Slice(els[j].data, 8 * (e - 1), 8 * e))
    IN  AsTuple([i \in 1..(lanes * (n - 1) + k) |->
                    by(((i - 1) \div lanes) + 1, ((i - 1) % lanes) + 1)])

\* the Inserter of the 32-bit stream has appended the CRC of its packet
WInsDone == x_state = "IDLE" /\ x_out # <<>> /\ x_in # <<>>

\* C11: for dw = 32 and a packet whose final element carries a one-hot
\* last_be below the top lane, the CRC the Inserter appends is the reference
\* CRC32 over exactly the packet's valid bytes.
C11_PartialFinalWord ==
    (WInsDone /\ x_in[Len(x_in)].last_be[lanes] = 0) =>
        x_out[Len(x_out)].data = RefCrc(ValidBytes(x_in))

\* what the code does: the appended CRC is the reference CRC32 over every
\* byte of every word, the lanes above last_be included
C11_AppendsCrcOfWholeWords ==
    WInsDone =>
        /\ x_out[Len(x_out)].last
        /\ x_out[Len(x_out)].data =
              RefCrc(ValidBytes([x_in EXCEPT ![Len(x_in)].last_be =
                                    AsTuple([e \in 1..lanes |-> IF e = lanes THEN 1 ELSE 0])]))

\* a packet ending in a partial word has got its CRC
C11_Witness ==
    WInsDone /\ x_in[Len(x_in)].last_be[1] = 1 /\ Len(x_in) = MaxWords + 1

\* C14, as amended: the Checker transfers an element to source only in a
\* cycle in which the buffer holds exactly ratio elements and the upstream
\* presents an element, which is accepted in that cycle; with fewer than
\* ratio elements nothing is released, not even when the upstream presents
\* the packet's last element; the level never reaches ratio + 1.
C14_ReleaseAtRatio ==
    /\ ChkSent =>
          /\ c_sig.level = ratio
          /\ c_sig.sink_valid /\ c_sig.sink_ready
    /\ c_sig.level < ratio => ~c_sig.source_valid
    /\ c_sig.level <= ratio

\* an element was released in a mid-packet cycle, and in another cycle the
\* last element was presented to a buffer of fewer than ratio elements
C14_Witness ==
    /\ ChkSent /\ c_sig.sink_valid /\ ~c_sig.sink_last
    /\ c_sig.level = ratio /\ c_sig.state = "COPY"

\* C14, as stated: an element is transferred only in a cycle in which the
\* buffer holds ratio + 1 elements or the upstream presents the last element
C14_ReleaseAtCapacityOrLast ==
    ChkSent => (c_sig.level = ratio + 1 \/ (c_sig.sink_valid /\ c_sig.sink_last))

\* C15: the fifo level is between 0 and the capacity ratio + 1, and the fifo
\* is written (fifo_in, which is sink.ready) only in a cycle in which it is
\* writable or simultaneously read.
C15_OccupancyInvariant ==
    /\ c_level \in 0..depth
    /\ c_sig.level \in 0..depth
    /\ c_sig.sink_ready => (c_sig.level # depth \/ ChkSent)
    /\ c_sig.sink_ready => c_storage[((c_produce + depth - 1) % depth) + 1].data
                              = c_sig.sink_data \/ c_sig.fifo_reset

\* the fifo was written and read in one cycle at its highest level
C15_Witness ==
    /\ c_sig.sink_ready /\ ChkSent /\ c_sig.level = ratio /\ c_level = ratio

\* the Checker accepted a sink element in the cycle that just ended
ChkAccepted == c_sig.sink_valid /\ c_sig.sink_ready

\* C16: whenever the Checker accepts a sink element with last set, in IDLE or
\* in COPY, the next fsm state is RESET; and the first element of a packet is
\* folded into registers at 0xFFFFFFFF with the staging buffer empty.
C16_PacketEndToReset ==
    /\ (ChkAccepted /\ c_sig.sink_last /\ c_sig.state \in {"IDLE", "COPY"}) =>
          c_state = "RESET"
    /\ (ChkAccepted /\ c_sig.crc_ce /\ Len(c_in) = 1) =>
          /\ c_sig.regs = CRC32Reset
          /\ c_sig.level = 0

\* C19: of a packet of at most ratio elements whose first element met an
\* empty staging buffer, every presented element is accepted, none is
\* transferred on source (source.valid stays 0, so its last is never seen)
\* and the error pulse is never asserted.
C19_ShortPacketSwallowed ==
    (c_in # <<>> /\ c_first = 0 /\ Len(c_in) <= ratio) =>
        /\ c_log = <<>>
        /\ (c_sig.sink_valid /\ (ChkAccepted \/ ~c_in[Len(c_in)].last)) =>
              /\ ChkAccepted
              /\ ~c_sig.source_valid
              /\ ~c_sig.error

\* a packet of ratio elements with the upstream error flag on its last one
\* has been accepted whole
C19_Witness ==
    /\ c_first = 0 /\ Len(c_in) = ratio /\ c_in[ratio].last /\ c_in[ratio].error
    /\ ChkAccepted /\ c_log = <<>>

\* C20: in every cycle source.error = sink.error | crc.error; an upstream
\* error flagged on sink element i >= ratio (from 0) is on the element
\* released in the cycle it is accepted, which is sink element i - ratio, and
\* one flagged on any of the first ratio elements is on no transferred
\* element.
C20_ErrorFromSinkElement ==
    /\ c_sig.source_error = (c_sig.sink_error \/ c_sig.crc_error)
    /\ (ChkAccepted /\ c_sig.sink_error /\ Len(c_in) > ratio) =>
          /\ ChkSent
          /\ Len(c_log) = Len(c_in) - ratio
          /\ c_log[Len(c_log)].error
          /\ c_log[Len(c_log)].data = c_in[Len(c_in) - ratio].data
    /\ (ChkAccepted /\ c_sig.sink_error /\ Len(c_in) <= ratio) => ~ChkSent

\* what holds whatever the fsm state: the error bit of a transferred element
\* is that of the sink element accepted in the same cycle, or'ed with
\* crc.error, and not the one stored with the released element
C20_ErrorIsCombinational ==
    /\ c_sig.source_error = (c_sig.sink_error \/ c_sig.crc_error)
    /\ ChkSent =>
          /\ ChkAccepted
          /\ c_log[Len(c_log)].error = (c_in[Len(c_in)].error \/ c_sig.crc_error)

C20_Witness ==
    /\ ChkSent /\ ChkAccepted /\ c_sig.sink_error /\ ~c_sig.crc_error
    /\ Len(c_in) > ratio
    /\ Len(c_log) = Len(c_in) - ratio
    /\ c_log[Len(c_log)].error
    /\ ~c_in[Len(c_in) - ratio].error

\* a step that is a clock cycle of the Inserter, not the upstream choosing its
\* next packet
InsClockStep == u_pkt' = u_pkt /\ u_idx' >= u_idx

\* C17: the Inserter's CRC registers are reset by every IDLE cycle, change by
\* one engine step in a COPY cycle with sink.valid & source.ready (the cycle
\* that transfers one sink element), and are unchanged in every other COPY
\* cycle and in every cycle of the CRC state, so crc.value stays the same
\* over the trailer chunks.
C17_CrcRegsFrame ==
    [][InsClockStep =>
        /\ i_state = "IDLE" => i_regs' = CRC32Reset
        /\ (i_state = "COPY" /\ i_sig'.sink_valid /\ i_sig'.source_ready) =>
              /\ i_regs' = CRC32Sync(i_regs, Bits(i_sig'.sink_data, dw), TRUE, FALSE)
              /\ i_regs' # i_regs
              /\ Len(i_in') = Len(i_in) + 1
              /\ Len(i_log') = Len(i_log) + 1
        /\ (i_state = "COPY" /\ ~(i_sig'.sink_valid /\ i_sig'.source_ready)) =>
              /\ i_regs' = i_regs
              /\ i_in' = i_in
              /\ i_log' = i_log
        /\ i_state = "CRC" =>
              /\ i_regs' = i_regs
              /\ CRC32Value(i_regs', NoLastBe) = CRC32Value(i_regs, NoLastBe)
    ]_vars

\* the trailer stalled between two chunks with the registers of a packet
C17_Witness ==
    /\ i_state = "CRC" /\ i_sig.state = "CRC" /\ ~i_sig.source_ready
    /\ i_cnt < ratio - 1 /\ i_cnt > 0
    /\ i_regs # CRC32Reset

\* the upstream's packet ends with last
UpstreamHasLast == u_pkt # <<>> /\ u_pkt[Len(u_pkt)].last

\* the cycle just done transferred the final chunk of a whole frame with last
\* and returned the fsm to IDLE
InsFrameDone ==
    /\ i_state = "IDLE" /\ i_sig.state = "CRC"
    /\ i_sig.source_valid /\ i_sig.source_ready /\ i_sig.source_last
    /\ i_log # <<>> /\ i_log[Len(i_log)].last
    /\ Len(i_log) = Len(i_in) + ratio

\* C18: with source.ready and the upstream's element coming again and again,
\* a packet that has left IDLE and ends with last gets its final CRC chunk
\* transferred with last and the fsm returns to IDLE, whose every cycle
\* re-arms the chunk counter to ratio - 1, so that it is ratio - 1 whenever a
\* packet is in COPY; a packet without last keeps the fsm in COPY forever.
C18_InserterProgress ==
    /\ (i_state = "COPY" /\ UpstreamHasLast) ~> InsFrameDone
    /\ [][(i_state = "IDLE" /\ InsClockStep) => i_cnt' = ratio - 1]_vars
    /\ [][i_state' = "COPY" => i_cnt' = ratio - 1]_vars
    /\ [][(i_state = "COPY" /\ ~UpstreamHasLast) =>
              (i_state' = "COPY" /\ ~UpstreamHasLast')]_vars

\* a whole frame went out although the downstream stalled its last chunk
C18_Witness ==
    /\ InsFrameDone
    /\ Len(i_in) = MaxLen

====
